---------------------------- MODULE Spec2Model ----------------------------
(***************************************************************************)
(* A model of the CellByte chat backend:                                   *)
(*   - CellByteAgent.chat (backend/src/agent.py): reconstruction of the    *)
(*     flat history, invocation of the agent runtime, flattening;          *)
(*   - run_analytics (backend/src/llm_utils/analytics_utils.py) and        *)
(*     create_plot_from_request (backend/src/llm_utils/plotting_utils.py): *)
(*     the code synthesis paths of the analysis and chart tools;           *)
(*   - ingest_file, delete_file (backend/src/llm_utils/csv_ingestion.py)   *)
(*     and search_data (backend/src/llm_utils/tools.py): the persisted     *)
(*     vector index, the metadata file and the dataset store.              *)
(* The agent runtime, the completion service and the behaviour of a        *)
(* generated snippet are external: they appear as nondeterministic choices *)
(* over small sets.                                                        *)
(***************************************************************************)
EXTENDS Integers, Sequences, FiniteSets, TLC

VARIABLES
    \* ---- CellByteAgent.chat ----
    callerHistory,  \* the caller's history list object
    chatPc,         \* "idle" | "returned" | "raised"
    chatIn,         \* the arguments of the call: [message, history]
    rt,             \* what agent.invoke did in the call
    chatOut,        \* what chat gave back to its caller
    \* ---- code synthesis (run_analytics / create_plot_from_request) ----
    synKind,        \* "none" | "analytics" | "plot"
    dataset,        \* "none" | "loaded" | "missing": what load_dataset gave
    synPc,          \* "idle" | "draft" | "exec" | "returned" | "raised"
    attempt,        \* the loop variable of run_analytics (0-based)
    transcript,     \* run_analytics' messages list
    code,           \* the cleaned snippet of the current attempt
    llmLog,         \* one entry per llm.invoke call of the invocation
    execLog,        \* one entry per snippet execution of the invocation
    synOut,         \* what the invocation gave back to its caller
    \* ---- vector index, metadata file, dataset store ----
    metaFiles,      \* the "files" list of metadata.json
    indexFaiss,     \* index.faiss exists in the index directory
    indexPkl,       \* index.pkl exists in the index directory
    indexDocs,      \* the documents of the index on disk, in order
    filesDir,       \* FILES_DIR: per name the ingestion whose copy it holds
    clock,          \* the number of ingest_file calls so far
    idxOut,         \* what the last call gave back to its caller
    before,         \* history: the persisted state when the last call began
    allClean,       \* history: no call so far met an upstream failure
    deletedNames,   \* history: names deleted and not ingested since
    \* ---- the CellByteAgent object ----
    agentMetadata,  \* self.metadata
    agentPrompt,    \* self.system_prompt
    agentTools,     \* self.tools
    agentBinding,   \* self.agent: what create_react_agent was given
    refreshes,      \* the number of refresh_metadata calls so far
    \* ---- ingest_file, delete_file and search_data side by side ----
    ingPc,          \* where the ingest_file call is
    ingStore,       \* its vector store in memory
    ingMeta,        \* the metadata it loaded
    delPc,          \* where the delete_file call is
    delMeta,        \* the metadata it loaded
    delRemaining,   \* its remaining_docs
    srchPc,         \* where the search_data call is
    srchOut,        \* what search_data gave
    overlap         \* history: the ingest saved the index while the delete
                    \* held its copy of it

chatVars == <<callerHistory, chatPc, chatIn, rt, chatOut>>
synVars == <<synKind, dataset, synPc, attempt, transcript, code, llmLog, execLog, synOut>>
idxVars == <<metaFiles, indexFaiss, indexPkl, indexDocs, filesDir, clock,
             idxOut, before, allClean, deletedNames>>
agentVars == <<agentMetadata, agentPrompt, agentTools, agentBinding, refreshes>>
raceVars == <<ingPc, ingStore, ingMeta, delPc, delMeta, delRemaining, srchPc,
              srchOut, overlap>>
vars == <<chatVars, synVars, idxVars, agentVars, raceVars>>

\* ------------------------------------------------------------------ bounds
\* Longest history a caller passes in.
MaxHist == 3
\* Most messages the agent runtime adds to the sequence in one invocation.
MaxEmit == 3

\* ----------------------------------------------------------------- helpers
SeqsUpTo(S, n) == UNION {[1..k -> S] : k \in 0..n}

\* Python's s[i:] for a 0-based index i with 0 <= i <= len(s).
PySliceFrom(s, i) == SubSeq(s, i + 1, Len(s))

Last(s) == s[Len(s)]

None == "None"
NoExc == "NoExc"

\* =========================================================================
\*                          CellByteAgent.chat
\* =========================================================================

\* One tool call record of an assistant turn / AIMessage.
ToolCall(i) == [id |-> i, name |-> "search_data"]

\* Flat turns (dicts) a caller can put into a history. api.ChatMessage only
\* types the fields: role is any string, tool_calls and tool_call_id are
\* optional and dropped from the dict when absent (exclude_none).
UserTurn(c) == [role |-> "user", content |-> c]
AssistantTurn(c) == [role |-> "assistant", content |-> c]
AssistantCallTurn(c, calls) ==
    [role |-> "assistant", content |-> c, tool_calls |-> calls]
ToolTurn(c, i) == [role |-> "tool", tool_call_id |-> i, content |-> c]

TurnPool ==
    { UserTurn("q"),
      AssistantTurn("ans"),
      AssistantCallTurn("", <<ToolCall(1)>>),
      ToolTurn("rows", 1),
      [role |-> "system", content |-> "note"],     \* a role chat does not know
      [role |-> "tool", content |-> "rows"] }      \* a tool turn without an id

Histories == SeqsUpTo(TurnPool, MaxHist)
Messages == {"m1", "m2"}

\* The runtime's native messages.
HumanMessage(c) ==
    [type |-> "Human", content |-> c, tool_calls |-> <<>>, tool_call_id |-> None]
AIMessage(c, calls) ==
    [type |-> "AI", content |-> c, tool_calls |-> calls, tool_call_id |-> None]
ToolMessage(c, i) ==
    [type |-> "Tool", content |-> c, tool_calls |-> <<>>, tool_call_id |-> i]

\* msg.get("tool_calls") is truthy: the key is there and the list is not empty.
HasToolCalls(t) == "tool_calls" \in DOMAIN t /\ t.tool_calls # <<>>

\* A tool turn whose dict has no "tool_call_id" key: msg["tool_call_id"] raises.
LacksToolCallId(t) == t.role = "tool" /\ "tool_call_id" \notin DOMAIN t

\* Mutation of ReconstructTurn: the assistant message never gets its
\* tool_calls back.
ReconstructTurnDropsCalls(t) ==
    IF t.role = "user" THEN <<HumanMessage(t.content)>>
    ELSE IF t.role = "assistant" THEN <<AIMessage(t.content, <<>>)>>
    ELSE IF t.role = "tool" THEN <<ToolMessage(t.content, t.tool_call_id)>>
    ELSE <<>>

\* The body of the loop over history: the messages one turn contributes. A
\* turn whose role is none of user, assistant, tool contributes nothing.
ReconstructTurn(t) ==
    IF t.role = "user" THEN <<HumanMessage(t.content)>>
    ELSE IF t.role = "assistant" THEN
        IF HasToolCalls(t) THEN <<AIMessage(t.content, t.tool_calls)>>
        ELSE <<AIMessage(t.content, <<>>)>>
    ELSE IF t.role = "tool" THEN <<ToolMessage(t.content, t.tool_call_id)>>
    ELSE <<>>

RECURSIVE Reconstruct(_)
Reconstruct(H) ==
    IF H = <<>> THEN <<>>
    ELSE ReconstructTurn(Head(H)) \o Reconstruct(Tail(H))

\* The messages list handed to agent.invoke.
BuildMessages(m, H) == Reconstruct(H) \o <<HumanMessage(m)>>

\* Building the messages raises KeyError on a tool turn without an id.
BuildRaises(H) == \E i \in 1..Len(H) : LacksToolCallId(H[i])

\* Mutation of FlattenMsg: the assistant entry never gets its tool_calls.
FlattenMsgNoCalls(msg) ==
    IF msg.type = "Human" THEN <<UserTurn(msg.content)>>
    ELSE IF msg.type = "AI" THEN <<AssistantTurn(msg.content)>>
    ELSE IF msg.type = "Tool" THEN <<ToolTurn(msg.content, msg.tool_call_id)>>
    ELSE <<>>

\* The body of the loop over result["messages"][start_idx:]: the turns one
\* native message contributes. A message of another type contributes nothing.
FlattenMsg(msg) ==
    IF msg.type = "Human" THEN <<UserTurn(msg.content)>>
    ELSE IF msg.type = "AI" THEN
        IF msg.tool_calls # <<>>
        THEN <<AssistantCallTurn(msg.content, msg.tool_calls)>>
        ELSE <<AssistantTurn(msg.content)>>
    ELSE IF msg.type = "Tool" THEN <<ToolTurn(msg.content, msg.tool_call_id)>>
    ELSE <<>>

RECURSIVE FlattenSeq(_)
FlattenSeq(ms) ==
    IF ms = <<>> THEN <<>>
    ELSE FlattenMsg(Head(ms)) \o FlattenSeq(Tail(ms))

\* Mutation of StartIdx: the index after the new user message.
StartIdxPastUser(messages) == Len(messages)

\* start_idx = len(messages) - 1
StartIdx(messages) == Len(messages) - 1

\* Mutation of CopyHistory: the prefix rebuilt from the native messages.
CopyHistoryRebuilt(H) == FlattenSeq(Reconstruct(H))

\* new_history = history.copy() if history else []
CopyHistory(H) == H

\* Mutation of FinalMessage: the first message of the result.
FinalMessageFirst(result) == result[1]

\* final_message = result["messages"][-1]
FinalMessage(result) == result[Len(result)]

\* The value chat returns: (final_message.content, new_history).
ChatReturn(m, H, result) ==
    LET messages == BuildMessages(m, H)
        new == PySliceFrom(result, StartIdx(messages))
    IN  [status |-> "returned",
         exc |-> NoExc,
         response |-> FinalMessage(result).content,
         history |-> CopyHistory(H) \o FlattenSeq(new)]

\* Mutation of ChatReraise: the failure replaced by an error of chat's own.
ChatReraiseWrapped(e) ==
    [status |-> "raised", exc |-> "ChatError", response |-> None, history |-> None]

\* except Exception as e: logger.error(...); raise
ChatReraise(e) ==
    [status |-> "raised", exc |-> e, response |-> None, history |-> None]

\* --- the agent runtime (langgraph's create_react_agent), external ---
\* The messages one invocation can append to the sequence it was given:
\* assistant messages, with or without tool calls, and tool results.
EmitPool ==
    { AIMessage("done", <<>>),
      AIMessage("", <<ToolCall(1)>>),
      AIMessage("", <<ToolCall(2)>>),
      AIMessage("", <<ToolCall(1), ToolCall(2)>>),
      ToolMessage("hits", 1),
      ToolMessage("hits", 2) }

\* The reasoning loop: an assistant message; if it calls tools, one tool
\* result per call, in order, and the next assistant message; the loop ends
\* with an assistant message that calls no tool.
ReActShaped(em) ==
    /\ em # <<>>
    /\ em[1].type = "AI"
    /\ Last(em).type = "AI" /\ Last(em).tool_calls = <<>>
    /\ \A i \in 1..Len(em) :
          em[i].type = "AI" =>
              LET calls == em[i].tool_calls
              IN  /\ i + Len(calls) <= Len(em)
                  /\ \A k \in 1..Len(calls) :
                        /\ em[i + k].type = "Tool"
                        /\ em[i + k].tool_call_id = calls[k].id
                  /\ i + Len(calls) < Len(em) => em[i + Len(calls) + 1].type = "AI"

Emissions == {em \in SeqsUpTo(EmitPool, MaxEmit) : ReActShaped(em)}

\* The tool call ids that occur in a sequence of native messages.
IdsOf(ms) ==
    {ms[i].tool_call_id : i \in {j \in 1..Len(ms) : ms[j].type = "Tool"}}
    \cup UNION {{ms[i].tool_calls[k].id : k \in 1..Len(ms[i].tool_calls)} :
                   i \in 1..Len(ms)}

\* The completion service makes a new id for every tool call: those of an
\* invocation are not among the ids of the messages it was given.
FreshIds(given, emitted) == IdsOf(given) \cap IdsOf(emitted) = {}

RuntimeFailures == {"GraphRecursionError", "APIConnectionError"}

NotInvoked == [invoked |-> FALSE, ok |-> FALSE, exc |-> NoExc,
               given |-> <<>>, emitted |-> <<>>, messages |-> <<>>]
RtOk(given, emitted) ==
    [invoked |-> TRUE, ok |-> TRUE, exc |-> NoExc,
     given |-> given, emitted |-> emitted, messages |-> given \o emitted]
RtFailed(given, e) ==
    [invoked |-> TRUE, ok |-> FALSE, exc |-> e,
     given |-> given, emitted |-> <<>>, messages |-> <<>>]

NoCall == [message |-> None, history |-> <<>>]
NoOut == [status |-> "none", exc |-> NoExc, response |-> None, history |-> None]

ChatIdle ==
    /\ chatPc = "idle"
    /\ chatIn = NoCall
    /\ rt = NotInvoked
    /\ chatOut = NoOut

\* chat(message, history) where building the messages list raises KeyError.
ChatKeyError(m) ==
    /\ chatPc = "idle"
    /\ BuildRaises(callerHistory)
    /\ chatIn' = [message |-> m, history |-> callerHistory]
    /\ rt' = NotInvoked
    /\ chatOut' = [status |-> "raised", exc |-> "KeyError",
                   response |-> None, history |-> None]
    /\ chatPc' = "raised"
    /\ UNCHANGED <<callerHistory, synVars, idxVars, agentVars, raceVars>>

\* chat(message, history) where agent.invoke raises.
ChatInvokeFails(m, e) ==
    /\ chatPc = "idle"
    /\ ~BuildRaises(callerHistory)
    /\ chatIn' = [message |-> m, history |-> callerHistory]
    /\ rt' = RtFailed(BuildMessages(m, callerHistory), e)
    /\ chatOut' = ChatReraise(e)
    /\ chatPc' = "raised"
    /\ UNCHANGED <<callerHistory, synVars, idxVars, agentVars, raceVars>>

\* chat(message, history) where agent.invoke returns the sequence it was
\* given followed by what it emitted.
ChatReturns(m, emitted) ==
    /\ chatPc = "idle"
    /\ ~BuildRaises(callerHistory)
    /\ LET given == BuildMessages(m, callerHistory)
       IN  /\ FreshIds(given, emitted)
           /\ rt' = RtOk(given, emitted)
           /\ chatOut' = ChatReturn(m, callerHistory, given \o emitted)
    /\ chatIn' = [message |-> m, history |-> callerHistory]
    /\ chatPc' = "returned"
    /\ UNCHANGED <<callerHistory, synVars, idxVars, agentVars, raceVars>>

\* The caller keeps the returned history for its next call
\* (response, history = agent.chat(user_input, history=history)).
ChatContinue ==
    /\ chatPc = "returned"
    /\ Len(chatOut.history) <= MaxHist
    /\ callerHistory' = chatOut.history
    /\ chatPc' = "idle"
    /\ chatIn' = NoCall
    /\ rt' = NotInvoked
    /\ chatOut' = NoOut
    /\ UNCHANGED <<synVars, idxVars, agentVars, raceVars>>

ChatNext ==
    \/ \E m \in Messages : ChatKeyError(m)
    \/ \E m \in Messages, e \in RuntimeFailures : ChatInvokeFails(m, e)
    \/ \E m \in Messages, emitted \in Emissions : ChatReturns(m, emitted)
    \/ ChatContinue

\* =========================================================================
\*            run_analytics and create_plot_from_request
\* =========================================================================

MAX_RETRIES == 3

\* Text is a sequence of tokens: a code fence (three backquotes), the word
\* after it, white space, and the snippet's own text.
Fence == "<fence>"
Whitespace == {"\n"}

StartsWith(s, p) == Len(s) >= Len(p) /\ SubSeq(s, 1, Len(p)) = p
EndsWith(s, p) == Len(s) >= Len(p) /\ SubSeq(s, Len(s) - Len(p) + 1, Len(s)) = p

RECURSIVE LStrip(_)
LStrip(s) == IF s # <<>> /\ Head(s) \in Whitespace THEN LStrip(Tail(s)) ELSE s

RECURSIVE RStrip(_)
RStrip(s) ==
    IF s # <<>> /\ Last(s) \in Whitespace
    THEN RStrip(SubSeq(s, 1, Len(s) - 1)) ELSE s

\* str.strip()
Strip(s) == LStrip(RStrip(s))

\* _clean_code, and the same lines of generate_plot_code.
CleanCode(c) ==
    LET c1 == IF StartsWith(c, <<Fence, "python">>) THEN SubSeq(c, 3, Len(c)) ELSE c
        c2 == IF StartsWith(c1, <<Fence>>) THEN Tail(c1) ELSE c1
        c3 == IF EndsWith(c2, <<Fence>>) THEN SubSeq(c2, 1, Len(c2) - 1) ELSE c2
    IN  Strip(c3)

\* What the completion service answers.
Responses ==
    { <<"snippetA">>,
      <<Fence, "python", "\n", "snippetB", "\n", Fence>>,
      <<Fence, "\n", "snippetA", "\n", Fence, "\n">> }

Exception(k, m) == [kind |-> k, msg |-> m]
NoError == Exception("", "")
NoCode == <<"None">>

\* Failures of the completion service (llm.invoke raises).
CompletionFailures == {Exception("APITimeoutError", "Request timed out.")}

\* What exec(code, ...) of a snippet raises.
SnippetErrors ==
    { Exception("KeyError", "revenue"),
      Exception("SyntaxError", "invalid syntax") }

\* What a snippet that does not raise leaves in the variable it is asked to
\* bind: nothing, a value that is not a dict, or a dict.
Unbound == [tag |-> "unbound"]
Scalar(text, truthy) == [tag |-> "scalar", text |-> text, truthy |-> truthy]
Dict(items) == [tag |-> "dict", items |-> items]
EmptyItems == [k \in {} |-> None]

ResultValues ==
    { Unbound,
      Scalar("0", FALSE),
      Scalar("42", TRUE),
      Dict(EmptyItems),
      Dict([data |-> "table"]),
      Dict([summary |-> "findings", data |-> "table"]) }

\* A value bound to fig; serializable: fig.to_html(...) returns.
Figure(html, serializable) ==
    [tag |-> "fig", html |-> html, serializable |-> serializable]
FigValues ==
    { Unbound,
      Figure("<div>chart</div>", TRUE),
      Figure("", FALSE) }

\* A snippet's behaviour when executed.
Raises(e) == [raises |-> TRUE, exc |-> e, binds |-> Unbound]
Binds(v) == [raises |-> FALSE, exc |-> NoError, binds |-> v]

AnalyticsBehaviours ==
    {Raises(e) : e \in SnippetErrors} \cup {Binds(v) : v \in ResultValues}
PlotBehaviours ==
    {Raises(e) : e \in SnippetErrors} \cup {Binds(v) : v \in FigValues}

\* bool(v)
Truthy(v) ==
    CASE v.tag = "unbound" -> FALSE
      [] v.tag = "scalar" -> v.truthy
      [] v.tag = "dict" -> DOMAIN v.items # {}
      [] OTHER -> TRUE

ExecOk(r) == [ok |-> TRUE, exc |-> NoError, result |-> r]
ExecRaised(e) == [ok |-> FALSE, exc |-> e, result |-> None]

\* dict d with d[k] = v set.
WithItem(d, k, v) == [x \in DOMAIN d \cup {k} |-> IF x = k THEN v ELSE d[x]]

\* A variant that takes a variable left unbound for an empty result.
ExecuteAnalyticsCodeEmptyResult(b) ==
    IF b.raises THEN ExecRaised(b.exc)
    ELSE IF b.binds.tag = "unbound"
    THEN ExecOk([summary |-> "Analysis completed."])
    ELSE IF b.binds.tag # "dict"
    THEN ExecOk([summary |-> b.binds.text, data |-> b.binds.text])
    ELSE ExecOk(WithItem(b.binds.items, "summary", "Analysis completed."))

\* _execute_analytics_code
ExecuteAnalyticsCode(b) ==
    IF b.raises THEN ExecRaised(b.exc)
    ELSE IF ~Truthy(b.binds)
    THEN ExecRaised(Exception("ValueError", "No result variable created"))
    ELSE LET r1 == IF b.binds.tag # "dict"
                   THEN [summary |-> b.binds.text, data |-> b.binds.text]
                   ELSE b.binds.items
             r2 == IF "summary" \notin DOMAIN r1
                   THEN WithItem(r1, "summary", "Analysis completed.")
                   ELSE r1
         IN  ExecOk(r2)

\* execute_plot_code
ExecutePlotCode(b) ==
    IF b.raises THEN ExecRaised(b.exc)
    ELSE IF ~Truthy(b.binds)
    THEN ExecRaised(Exception("ValueError",
                              "Code executed but no fig variable was created"))
    ELSE IF ~b.binds.serializable
    THEN ExecRaised(Exception("AttributeError", "no attribute to_html"))
    ELSE ExecOk(b.binds.html)

HumanTurn(c) == [role |-> "human", content |-> c]
AITurn(c) == [role |-> "ai", content |-> c]

\* messages = [HumanMessage(content=f"{system_prompt}\n\nUSER REQUEST: ...")]
SeedTranscript == <<HumanTurn(<<"system_prompt", "USER REQUEST">>)>>

\* error_msg = f"{type(e).__name__}: {str(e)}", in the feedback turn.
ErrorFeedback(e) == HumanTurn(<<"ERROR", e.kind, e.msg, "Fix the code">>)

\* Mutation of CompletionFailureNext: the failure handled like a failing snippet.
CompletionFailureRetries(k) == IF k < MAX_RETRIES - 1 THEN "retry" ELSE "raise"

\* llm.invoke(messages) stands outside the try block of the loop body:
\* whatever the attempt k, its exception leaves run_analytics.
CompletionFailureNext(k) == "raise"

\* Mutation of ExecFailureNext: the error is fed back whatever the attempt.
ExecFailureAlwaysRetries(k) == "retry"

\* Mutation of ExecFailureNext: the last failure leaves the loop by its end.
ExecFailureFallsThrough(k) == IF k < MAX_RETRIES - 1 THEN "retry" ELSE "fallthrough"

\* Mutation of ExecFailureNext: one retry fewer.
ExecFailureOneFewer(k) == IF k < MAX_RETRIES - 2 THEN "retry" ELSE "raise"

\* Mutation of ExecFailureNext: the test of line 139 taken one attempt too
\* far, so that the last failure is fed back and the range runs out.
ExecFailureOffByOne(k) ==
    IF k < MAX_RETRIES
    THEN IF k + 1 < MAX_RETRIES THEN "retry" ELSE "fallthrough"
    ELSE "raise"

\* The except block of the loop body and the loop's next step, for the
\* attempt k (0-based) whose execution raised: feed the error back and go on
\* with attempt k + 1 if range(MAX_RETRIES) has it, re-raise on the last
\* attempt, and the statement after the loop once the range is exhausted.
ExecFailureNext(k) ==
    IF k < MAX_RETRIES - 1
    THEN IF k + 1 < MAX_RETRIES THEN "retry" ELSE "fallthrough"
    ELSE "raise"

SynNoOut == [status |-> "none", exc |-> NoError, result |-> None, code |-> NoCode]
SynReturned(r, c) == [status |-> "returned", exc |-> NoError, result |-> r, code |-> c]
SynRaised(e) == [status |-> "raised", exc |-> e, result |-> None, code |-> NoCode]

LlmOk(content) == [ok |-> TRUE, exc |-> NoError, content |-> content]
LlmFailed(e) == [ok |-> FALSE, exc |-> e, content |-> <<>>]

SynIdle ==
    /\ synKind = "none"
    /\ dataset = "none"
    /\ synPc = "idle"
    /\ attempt = 0
    /\ transcript = <<>>
    /\ code = NoCode
    /\ llmLog = <<>>
    /\ execLog = <<>>
    /\ synOut = SynNoOut

\* A variant that goes on to the completion call without a dataset.
SynStartIgnoresMissing(kind, found) ==
    /\ synPc = "idle"
    /\ synKind' = kind
    /\ dataset' = IF found THEN "loaded" ELSE "missing"
    /\ attempt' = 0
    /\ code' = NoCode
    /\ llmLog' = <<>>
    /\ execLog' = <<>>
    /\ synPc' = "draft"
    /\ transcript' = IF kind = "analytics" THEN SeedTranscript ELSE <<>>
    /\ synOut' = SynNoOut
    /\ UNCHANGED <<chatVars, idxVars, agentVars, raceVars>>

\* run_analytics / create_plot_from_request up to the first completion call;
\* found: load_dataset(filename) returned a table.
SynStart(kind, found) ==
    /\ synPc = "idle"
    /\ synKind' = kind
    /\ dataset' = IF found THEN "loaded" ELSE "missing"
    /\ attempt' = 0
    /\ code' = NoCode
    /\ llmLog' = <<>>
    /\ execLog' = <<>>
    /\ IF found
       THEN /\ synPc' = "draft"
            /\ transcript' = IF kind = "analytics" THEN SeedTranscript ELSE <<>>
            /\ synOut' = SynNoOut
       ELSE /\ synPc' = "raised"
            /\ transcript' = <<>>
            /\ synOut' = SynRaised(Exception("FileNotFoundError", "File not found"))
    /\ UNCHANGED <<chatVars, idxVars, agentVars, raceVars>>

\* A variant that keeps the snippet of the first attempt.
AnalyticsDraftKeepsFirstCode(content) ==
    /\ synKind = "analytics" /\ synPc = "draft"
    /\ llmLog' = Append(llmLog, LlmOk(content))
    /\ code' = IF code = NoCode THEN CleanCode(content) ELSE code
    /\ transcript' = Append(transcript, AITurn(content))
    /\ synPc' = "exec"
    /\ UNCHANGED <<synKind, dataset, attempt, execLog, synOut, chatVars, idxVars, agentVars, raceVars>>

\* A variant that puts the cleaned snippet into the transcript.
AnalyticsDraftAppendsCode(content) ==
    /\ synKind = "analytics" /\ synPc = "draft"
    /\ llmLog' = Append(llmLog, LlmOk(content))
    /\ code' = CleanCode(content)
    /\ transcript' = Append(transcript, AITurn(CleanCode(content)))
    /\ synPc' = "exec"
    /\ UNCHANGED <<synKind, dataset, attempt, execLog, synOut, chatVars, idxVars, agentVars, raceVars>>

\* run_analytics: response = llm.invoke(messages) returns.
AnalyticsDraft(content) ==
    /\ synKind = "analytics" /\ synPc = "draft"
    /\ llmLog' = Append(llmLog, LlmOk(content))
    /\ code' = CleanCode(content)
    /\ transcript' = Append(transcript, AITurn(content))
    /\ synPc' = "exec"
    /\ UNCHANGED <<synKind, dataset, attempt, execLog, synOut, chatVars, idxVars, agentVars, raceVars>>

\* run_analytics: llm.invoke(messages) raises.
AnalyticsDraftFails(e) ==
    /\ synKind = "analytics" /\ synPc = "draft"
    /\ llmLog' = Append(llmLog, LlmFailed(e))
    /\ LET next == CompletionFailureNext(attempt)
       IN  IF next = "retry"
           THEN /\ attempt' = attempt + 1
                /\ transcript' = Append(transcript, ErrorFeedback(e))
                /\ synPc' = "draft"
                /\ synOut' = synOut
           ELSE /\ synPc' = "raised"
                /\ synOut' = SynRaised(e)
                /\ UNCHANGED <<attempt, transcript>>
    /\ UNCHANGED <<synKind, dataset, code, execLog, chatVars, idxVars, agentVars, raceVars>>

\* run_analytics: the try block of the loop body and its except block.
AnalyticsExec(b) ==
    /\ synKind = "analytics" /\ synPc = "exec"
    /\ LET x == ExecuteAnalyticsCode(b)
       IN  /\ execLog' = Append(execLog, [ok |-> x.ok, exc |-> x.exc,
                                         code |-> code, raised |-> b.raises,
                                         bound |-> b.binds])
           /\ IF x.ok
              THEN /\ synOut' = SynReturned(WithItem(x.result, "code", code), code)
                   /\ synPc' = "returned"
                   /\ UNCHANGED <<attempt, transcript>>
              ELSE LET next == ExecFailureNext(attempt)
                   IN  CASE next = "retry" ->
                              /\ transcript' = Append(transcript, ErrorFeedback(x.exc))
                              /\ attempt' = attempt + 1
                              /\ synPc' = "draft"
                              /\ synOut' = synOut
                         [] next = "raise" ->
                              /\ synPc' = "raised"
                              /\ synOut' = SynRaised(x.exc)
                              /\ UNCHANGED <<attempt, transcript>>
                         [] OTHER ->
                              /\ transcript' = Append(transcript, ErrorFeedback(x.exc))
                              /\ attempt' = attempt + 1
                              /\ synPc' = "raised"
                              /\ synOut' = SynRaised(Exception("RuntimeError",
                                                               "Analytics failed"))
    /\ UNCHANGED <<synKind, dataset, code, llmLog, chatVars, idxVars, agentVars, raceVars>>

\* generate_plot_code: llm.invoke(prompt) returns; the response is stripped
\* and cleaned.
PlotDraft(content) ==
    /\ synKind = "plot" /\ synPc = "draft"
    /\ llmLog' = Append(llmLog, LlmOk(content))
    /\ code' = CleanCode(Strip(content))
    /\ synPc' = "exec"
    /\ UNCHANGED <<synKind, dataset, attempt, transcript, execLog, synOut, chatVars, idxVars, agentVars, raceVars>>

\* generate_plot_code: llm.invoke(prompt) raises; logged and raised again.
PlotDraftFails(e) ==
    /\ synKind = "plot" /\ synPc = "draft"
    /\ llmLog' = Append(llmLog, LlmFailed(e))
    /\ synPc' = "raised"
    /\ synOut' = SynRaised(e)
    /\ UNCHANGED <<synKind, dataset, attempt, transcript, code, execLog, chatVars, idxVars, agentVars, raceVars>>

\* A variant that drafts a new snippet whenever the execution failed.
PlotExecRetriesForever(b) ==
    /\ synKind = "plot" /\ synPc = "exec"
    /\ LET x == ExecutePlotCode(b)
       IN  /\ execLog' = Append(execLog, [ok |-> x.ok, exc |-> x.exc,
                                         code |-> code, raised |-> b.raises,
                                         bound |-> b.binds])
           /\ IF x.ok
              THEN /\ synOut' = SynReturned(x.result, code)
                   /\ synPc' = "returned"
              ELSE /\ synOut' = synOut
                   /\ synPc' = "draft"
    /\ UNCHANGED <<synKind, dataset, attempt, transcript, code, llmLog, chatVars, idxVars, agentVars, raceVars>>

\* create_plot_from_request: html = execute_plot_code(code, df); return.
PlotExec(b) ==
    /\ synKind = "plot" /\ synPc = "exec"
    /\ LET x == ExecutePlotCode(b)
       IN  /\ execLog' = Append(execLog, [ok |-> x.ok, exc |-> x.exc,
                                         code |-> code, raised |-> b.raises,
                                         bound |-> b.binds])
           /\ IF x.ok
              THEN /\ synOut' = SynReturned(x.result, code)
                   /\ synPc' = "returned"
              ELSE /\ synOut' = SynRaised(x.exc)
                   /\ synPc' = "raised"
    /\ UNCHANGED <<synKind, dataset, attempt, transcript, code, llmLog, chatVars, idxVars, agentVars, raceVars>>

\* The invocation is over; the tool is called again.
SynReset ==
    /\ synPc \in {"returned", "raised"}
    /\ synKind' = "none"
    /\ dataset' = "none"
    /\ synPc' = "idle"
    /\ attempt' = 0
    /\ transcript' = <<>>
    /\ code' = NoCode
    /\ llmLog' = <<>>
    /\ execLog' = <<>>
    /\ synOut' = SynNoOut
    /\ UNCHANGED <<chatVars, idxVars, agentVars, raceVars>>

SynNext ==
    \/ \E kind \in {"analytics", "plot"}, found \in BOOLEAN : SynStart(kind, found)
    \/ \E content \in Responses : AnalyticsDraft(content)
    \/ \E e \in CompletionFailures : AnalyticsDraftFails(e)
    \/ \E b \in AnalyticsBehaviours : AnalyticsExec(b)
    \/ \E content \in Responses : PlotDraft(content)
    \/ \E e \in CompletionFailures : PlotDraftFails(e)
    \/ \E b \in PlotBehaviours : PlotExec(b)
    \/ SynReset

\* The steps of an invocation under way: a completion call that returns or
\* raises, an execution that returns or raises.
SynProgress ==
    \/ \E content \in Responses : AnalyticsDraft(content)
    \/ \E e \in CompletionFailures : AnalyticsDraftFails(e)
    \/ \E b \in AnalyticsBehaviours : AnalyticsExec(b)
    \/ \E content \in Responses : PlotDraft(content)
    \/ \E e \in CompletionFailures : PlotDraftFails(e)
    \/ \E b \in PlotBehaviours : PlotExec(b)

\* =========================================================================
\*        the vector index: ingest_file, delete_file, search_data
\* =========================================================================

\* ingest_file calls in a run, and rows of an uploaded table.
MaxIngests == 3
MaxRows == 1

\* similarity_search(query, k=5)
SEARCH_K == 5

Names == {"a.csv", "b.csv"}
RowCounts == 0..MaxRows

\* _csv_to_documents: one document per row of the table, with the file name
\* as source and the row's index. The stamp stands for the content of the
\* upload the row came from: every upload is told apart by the number of
\* the ingest_file call that read it.
Document(name, i, stamp) == [source |-> name, row_index |-> i, stamp |-> stamp]
CsvToDocuments(name, rows, stamp) ==
    [i \in 1..rows |-> Document(name, i - 1, stamp)]

\* file_metadata of ingest_file, as far as the index is concerned.
FileMetadata(name, rows, stamp) ==
    [name |-> name, date_ingested |-> stamp, row_count |-> rows]

\* A variant that finds every name.
FileExistsAlways(files, name) == TRUE

\* delete_file: any(f["name"] == filename for f in metadata["files"])
FileExists(files, name) == \E i \in DOMAIN files : files[i].name = name

\* A variant that keeps every entry.
WithoutFileKeepsAll(files, name) == files

\* delete_file: [f for f in metadata["files"] if f["name"] != filename]
WithoutFile(files, name) == SelectSeq(files, LAMBDA f : f.name # name)

\* A variant that registers nothing.
RegisterFileDrops(files, entry) == files

\* A variant that appends the entry whether the name is registered or not.
RegisterFileAppends(files, entry) == Append(files, entry)

\* ingest_file: the entry replaces the first entry of its name, or is
\* appended when the name is new.
RegisterFile(files, entry) ==
    IF \E i \in DOMAIN files : files[i].name = entry.name
    THEN LET existing_idx == CHOOSE i \in DOMAIN files :
                        /\ files[i].name = entry.name
                        /\ \A j \in 1..(i - 1) : files[j].name # entry.name
         IN  [files EXCEPT ![existing_idx] = entry]
    ELSE Append(files, entry)

\* A variant that retains every document.
RemainingDocsKeepsAll(docs, name) == docs

\* A variant that retains no document.
RemainingDocsDropsAll(docs, name) == <<>>

\* A variant that collects the documents of the other files twice.
RemainingDocsTwice(docs, name) ==
    SelectSeq(docs, LAMBDA d : d.source # name) \o
    SelectSeq(docs, LAMBDA d : d.source # name)

\* delete_file: the documents of the docstore whose source is another file.
RemainingDocs(docs, name) == SelectSeq(docs, LAMBDA d : d.source # name)

\* A variant that counts the entry that was deleted.
RemainingFilesCountsDeleted(files) == Len(files) + 1

\* delete_file: "remaining_files": len(metadata["files"])
RemainingFiles(files) == Len(files)

\* The sets of documents similarity_search may give for an index: the k
\* nearest, whichever they are, or all when the index has fewer.
TopK(docs) ==
    LET n == IF Len(docs) < SEARCH_K THEN Len(docs) ELSE SEARCH_K
    IN  {{docs[i] : i \in S} :
            S \in {T \in SUBSET (1..Len(docs)) : Cardinality(T) = n}}

\* Where a call can fail outside the program: reading the upload, loading
\* the index from disk, the embedding service, and save_local of the index,
\* which writes index.faiss and then index.pkl and can fail before the first
\* ("save") or between the two ("torn").
IngestFaults == {"none", "read", "embed", "save", "torn"}
DeleteFaults == {"none", "load", "embed"}
SearchFaults == {"none", "load", "embed"}

\* What a call gives back.
IdxResult(op, name, status, exc, rows, remaining, docs) ==
    [op |-> op, name |-> name, status |-> status, exc |-> exc,
     rows_indexed |-> rows, remaining_files |-> remaining, docs |-> docs]
IdxNoOut == IdxResult("none", "", "none", NoError, 0, 0, {})
IdxRaised(op, name, e) == IdxResult(op, name, "raised", e, 0, 0, {})

\* The persisted state.
Persisted ==
    [files |-> metaFiles, faiss |-> indexFaiss, pkl |-> indexPkl,
     docs |-> indexDocs, store |-> filesDir]

IdxIdle ==
    /\ metaFiles = <<>>
    /\ indexFaiss = FALSE
    /\ indexPkl = FALSE
    /\ indexDocs = <<>>
    /\ filesDir = [n \in Names |-> 0]
    /\ clock = 0
    /\ idxOut = IdxNoOut
    /\ before = [files |-> <<>>, faiss |-> FALSE, pkl |-> FALSE,
                 docs |-> <<>>, store |-> [n \in Names |-> 0]]
    /\ allClean = TRUE
    /\ deletedNames = {}

\* A variant that keeps the new documents only.
AddDocumentsReplaces(docs, documents) == documents

\* vectorstore.add_documents(documents) on the loaded index: the documents
\* come after those the index holds.
AddDocuments(docs, documents) == docs \o documents

\* A variant in which the vector store takes an empty list of documents.
StoreTakesAny(documents) == TRUE

\* ingest_file hands the documents to the vector store as they are:
\* FAISS.from_documents(documents, embeddings) sizes the new index by the
\* first vector and add_documents(documents) adds the matrix of the vectors
\* to the index; with no document there is no first vector and no matrix,
\* and both raise.
StoreTakes(documents) == documents # <<>>

\* ingest_file(file_path, filename). rows: the rows of the table read;
\* fault: where the call fails outside the program.
IngestFile(name, rows, fault) ==
    /\ clock < MaxIngests
    /\ clock' = clock + 1
    /\ before' = Persisted
    /\ LET stamp == clock + 1
           documents == CsvToDocuments(name, rows, stamp)
       IN  IF fault = "read"
           THEN /\ idxOut' = IdxRaised("ingest", name,
                                      Exception("ValueError", "cannot read file"))
                /\ UNCHANGED <<metaFiles, indexFaiss, indexPkl, indexDocs,
                               filesDir, allClean, deletedNames>>
           ELSE /\ filesDir' = [filesDir EXCEPT ![name] = stamp]
                /\ IF fault = "embed"
                   THEN /\ idxOut' = IdxRaised("ingest", name,
                                     Exception("APIConnectionError", "embedding failed"))
                        /\ allClean' = FALSE
                        /\ UNCHANGED <<metaFiles, indexFaiss, indexPkl,
                                       indexDocs, deletedNames>>
                   ELSE IF indexFaiss /\ ~indexPkl
                   THEN /\ idxOut' = IdxRaised("ingest", name,
                                     Exception("RuntimeError", "cannot load index"))
                        /\ allClean' = FALSE
                        /\ UNCHANGED <<metaFiles, indexFaiss, indexPkl,
                                       indexDocs, deletedNames>>
                   ELSE IF ~StoreTakes(documents)
                   THEN /\ idxOut' = IdxRaised("ingest", name,
                                     IF indexFaiss
                                     THEN Exception("ValueError", "no vectors to add")
                                     ELSE Exception("IndexError", "list index out of range"))
                        /\ UNCHANGED <<metaFiles, indexFaiss, indexPkl,
                                       indexDocs, allClean, deletedNames>>
                   ELSE IF fault \in {"save", "torn"}
                   THEN /\ idxOut' = IdxRaised("ingest", name,
                                     Exception("OSError", "cannot write index"))
                        /\ indexFaiss' = (indexFaiss \/ fault = "torn")
                        /\ allClean' = FALSE
                        /\ UNCHANGED <<metaFiles, indexPkl, indexDocs,
                                       deletedNames>>
                   ELSE /\ indexDocs' = IF indexFaiss
                                        THEN AddDocuments(indexDocs, documents)
                                        ELSE documents
                        /\ indexFaiss' = TRUE
                        /\ indexPkl' = TRUE
                        /\ metaFiles' = RegisterFile(metaFiles,
                                            FileMetadata(name, rows, stamp))
                        /\ idxOut' = IdxResult("ingest", name, "success", NoError,
                                               Len(documents), 0, {})
                        /\ deletedNames' = deletedNames \ {name}
                        /\ allClean' = allClean
    /\ UNCHANGED <<chatVars, synVars, agentVars, raceVars>>

\* delete_file(filename). fault: where the call fails outside the program.
DeleteFile(name, fault) ==
    /\ before' = Persisted
    /\ IF ~FileExists(metaFiles, name)
       THEN /\ idxOut' = IdxRaised("delete", name,
                                  Exception("ValueError", "File not found"))
            /\ UNCHANGED <<metaFiles, indexFaiss, indexPkl, indexDocs,
                           allClean, deletedNames>>
       ELSE LET files == WithoutFile(metaFiles, name)
                remaining_docs == RemainingDocs(indexDocs, name)
                deleted == IdxResult("delete", name, "deleted", NoError, 0,
                                     RemainingFiles(files), {})
            IN  /\ metaFiles' = files
                /\ IF ~indexFaiss
                   THEN /\ idxOut' = deleted
                        /\ deletedNames' = deletedNames \cup {name}
                        /\ UNCHANGED <<indexFaiss, indexPkl, indexDocs, allClean>>
                   ELSE IF fault = "load" \/ ~indexPkl
                   THEN /\ idxOut' = IdxRaised("delete", name,
                                     Exception("RuntimeError", "cannot load index"))
                        /\ allClean' = FALSE
                        /\ UNCHANGED <<indexFaiss, indexPkl, indexDocs,
                                       deletedNames>>
                   ELSE IF remaining_docs # <<>> /\ fault = "embed"
                   THEN /\ indexFaiss' = FALSE
                        /\ indexPkl' = FALSE
                        /\ indexDocs' = <<>>
                        /\ idxOut' = IdxRaised("delete", name,
                                     Exception("APIConnectionError", "embedding failed"))
                        /\ allClean' = FALSE
                        /\ deletedNames' = deletedNames
                   ELSE /\ indexFaiss' = (remaining_docs # <<>>)
                        /\ indexPkl' = (remaining_docs # <<>>)
                        /\ indexDocs' = remaining_docs
                        /\ idxOut' = deleted
                        /\ deletedNames' = deletedNames \cup {name}
                        /\ allClean' = allClean
    /\ UNCHANGED <<filesDir, clock, chatVars, synVars, agentVars, raceVars>>

\* A variant that builds the embeddings client and loads before it looks
\* whether there is an index.
GetVectorstoreLoadsFirst(exists, fault) ==
    IF fault = "load" THEN "raises"
    ELSE IF ~exists THEN "none"
    ELSE "loaded"

\* get_vectorstore: None when index.faiss is not there; else the embeddings
\* client is built and the index loaded, which can raise.
GetVectorstore(exists, fault) ==
    IF ~exists THEN "none"
    ELSE IF fault = "load" THEN "raises"
    ELSE "loaded"

\* search_data(query). fault: where the call fails outside the program;
\* hits: what similarity_search gave.
SearchData(fault, hits) ==
    LET vectorstore ==
            GetVectorstore(indexFaiss,
                           IF indexFaiss /\ ~indexPkl THEN "load" ELSE fault)
    IN  /\ hits \in (IF vectorstore = "loaded" /\ fault = "none"
                     THEN TopK(indexDocs) ELSE {{}})
        /\ before' = Persisted
        /\ idxOut' =
              IF vectorstore = "none"
              THEN IdxResult("search", "", "no_data", NoError, 0, 0, {})
              ELSE IF vectorstore = "raises" \/ fault = "embed"
              THEN IdxResult("search", "", "error_text",
                             Exception("Exception", "Error searching data"), 0, 0, {})
              ELSE IF hits = {}
              THEN IdxResult("search", "", "no_hits", NoError, 0, 0, {})
              ELSE IdxResult("search", "", "hits", NoError, 0, 0, hits)
        /\ UNCHANGED <<metaFiles, indexFaiss, indexPkl, indexDocs, filesDir, clock,
                       allClean, deletedNames, chatVars, synVars, agentVars, raceVars>>

IdxNext ==
    \/ \E name \in Names, rows \in RowCounts, fault \in IngestFaults :
          IngestFile(name, rows, fault)
    \/ \E name \in Names, fault \in DeleteFaults : DeleteFile(name, fault)
    \/ \E fault \in SearchFaults, hits \in TopK(indexDocs) \cup {{}} :
          SearchData(fault, hits)

\* =========================================================================
\*        the tools: search_data, analyze_data, create_plot (tools.py)
\* =========================================================================

\* What a tool gives the agent runtime: a text (a sequence of the pieces it
\* is put together from) or an exception.
ToolValue(text) == [raises |-> FALSE, exc |-> NoError, text |-> text]
ToolRaises(e) == [raises |-> TRUE, exc |-> e, text |-> <<>>]

\* analyze_data: data = result.get("data", {}) and its formatting.
DataStr(result) == IF "data" \in DOMAIN result THEN result.data ELSE ""

\* A variant that catches FileNotFoundError only.
AnalyzeDataReraises(out) ==
    IF out.status = "returned"
    THEN ToolValue(<<"**Analysis Result:**", out.result.summary,
                     "**Data:**", DataStr(out.result)>>)
    ELSE IF out.exc.kind = "FileNotFoundError"
    THEN ToolValue(<<out.exc.msg>>)
    ELSE ToolRaises(out.exc)

\* A variant that tells the type of the exception with its message.
AnalyzeDataTellsType(out) ==
    IF out.status = "returned"
    THEN ToolValue(<<"**Analysis Result:**", out.result.summary,
                     "**Data:**", DataStr(out.result)>>)
    ELSE IF out.exc.kind = "FileNotFoundError"
    THEN ToolValue(<<out.exc.msg>>)
    ELSE ToolValue(<<"Error analyzing data: ", out.exc.kind, out.exc.msg>>)

\* analyze_data(analysis_request, filename), out being what run_analytics
\* gave or raised.
AnalyzeData(out) ==
    IF out.status = "returned"
    THEN ToolValue(<<"**Analysis Result:**", out.result.summary,
                     "**Data:**", DataStr(out.result)>>)
    ELSE IF out.exc.kind = "FileNotFoundError"
    THEN ToolValue(<<out.exc.msg>>)
    ELSE ToolValue(<<"Error analyzing data: ", out.exc.msg>>)

\* create_plot(plot_request, filename), out being what
\* create_plot_from_request gave or raised.
CreatePlot(out) ==
    IF out.status = "returned"
    THEN ToolValue(<<"[PLOT_HTML]", out.result, "[/PLOT_HTML]">>)
    ELSE IF out.exc.kind = "FileNotFoundError"
    THEN ToolValue(<<out.exc.msg>>)
    ELSE ToolValue(<<"Error creating plot: ", out.exc.msg>>)

\* The runtime calls one tool at a time: a synthesis runs from start to end
\* with no call on the index in between.
ToolsNext ==
    \/ idxOut.op = "none" /\ SynNext
    \/ synPc = "idle" /\ IdxNext

\* =========================================================================
\*                            specifications
\* =========================================================================

\* ---------------------------------------------------------------------
\* The dataset store as run_analytics and create_plot_from_request read it.
\* ---------------------------------------------------------------------

\* A variant that looks the file up nowhere.
LoadDatasetMissing(store, name) == FALSE

\* load_dataset(filename): a table when FILES_DIR / filename is there (the
\* copy ingest_file made, which it had read as a table before), else None.
LoadDataset(store, name) == store[name] # 0

\* run_analytics / create_plot_from_request on the file of the delete_file
\* call that has just returned.
AnalyzeDeleted(kind) ==
    /\ idxOut.op = "delete"
    /\ idxOut.status = "deleted"
    /\ SynStart(kind, LoadDataset(filesDir, idxOut.name))

StoreNext ==
    \/ /\ synPc = "idle"
       /\ \E name \in Names, rows \in RowCounts, fault \in IngestFaults :
             IngestFile(name, rows, fault)
    \/ /\ synPc = "idle"
       /\ \E name \in Names, fault \in DeleteFaults : DeleteFile(name, fault)
    \/ \E kind \in {"analytics", "plot"} : AnalyzeDeleted(kind)

\* ---------------------------------------------------------------------
\* ingest_file, delete_file and search_data running side by side, each a
\* call of its own that reads and writes the files step by step. Nothing in
\* the program keeps one call from running between two steps of another.
\* index.pkl holds the documents of the index (indexDocs), index.faiss their
\* vectors; an index on disk can be loaded when both files are there.
\* ---------------------------------------------------------------------

RaceIngestName == "b.csv"
RaceDeleteName == "a.csv"

NoIngStore == [entry |-> <<>>, documents |-> <<>>, docs |-> <<>>]

RaceIdle ==
    /\ ingPc = "idle"
    /\ ingStore = NoIngStore
    /\ ingMeta = <<>>
    /\ delPc = "idle"
    /\ delMeta = <<>>
    /\ delRemaining = <<>>
    /\ srchPc = "idle"
    /\ srchOut = IdxNoOut
    /\ overlap = FALSE

\* FAISS.load_local reads index.faiss and index.pkl.
Loadable == indexFaiss /\ indexPkl

\* The steps of delete_file between which it holds the documents it read
\* from the index and has not yet written the index back.
DeleteHoldsCopy == delPc \in {"loaded", "unlinkedFaiss", "unlinked"}

\* ingest_file up to the documents: the upload is read and copied to the
\* dataset store, the rows become documents.
RaceIngestStart(rows) ==
    /\ ingPc = "idle"
    /\ clock < MaxIngests
    /\ clock' = clock + 1
    /\ filesDir' = [filesDir EXCEPT ![RaceIngestName] = clock + 1]
    /\ ingStore' = [entry |-> <<FileMetadata(RaceIngestName, rows, clock + 1)>>,
                    documents |-> CsvToDocuments(RaceIngestName, rows, clock + 1),
                    docs |-> <<>>]
    /\ ingPc' = "built"
    /\ UNCHANGED <<metaFiles, indexFaiss, indexPkl, indexDocs, idxOut, before,
                   allClean, deletedNames, ingMeta, delPc, delMeta,
                   delRemaining, srchPc, srchOut, overlap, chatVars, synVars,
                   agentVars>>

\* ingest_file: the index is loaded and the documents added, or a new index
\* is made of the documents; all in memory.
RaceIngestLoad ==
    /\ ingPc = "built"
    /\ IF (indexFaiss /\ ~indexPkl) \/ ~StoreTakes(ingStore.documents)
       THEN /\ ingPc' = "failed"
            /\ UNCHANGED ingStore
       ELSE /\ ingPc' = "loaded"
            /\ ingStore' =
                  [ingStore EXCEPT !.docs =
                      IF indexFaiss
                      THEN AddDocuments(indexDocs, ingStore.documents)
                      ELSE ingStore.documents]
    /\ UNCHANGED <<idxVars, ingMeta, delPc, delMeta, delRemaining, srchPc,
                   srchOut, overlap, chatVars, synVars, agentVars>>

\* ingest_file: vectorstore.save_local writes both files.
RaceIngestSave ==
    /\ ingPc = "loaded"
    /\ indexFaiss' = TRUE
    /\ indexPkl' = TRUE
    /\ indexDocs' = ingStore.docs
    /\ overlap' = (overlap \/ DeleteHoldsCopy)
    /\ ingPc' = "saved"
    /\ UNCHANGED <<metaFiles, filesDir, clock, idxOut, before, allClean,
                   deletedNames, ingStore, ingMeta, delPc, delMeta,
                   delRemaining, srchPc, srchOut, chatVars, synVars, agentVars>>

\* ingest_file: metadata = _load_metadata()
RaceIngestLoadMeta ==
    /\ ingPc = "saved"
    /\ ingMeta' = metaFiles
    /\ ingPc' = "metaLoaded"
    /\ UNCHANGED <<idxVars, ingStore, delPc, delMeta, delRemaining, srchPc,
                   srchOut, overlap, chatVars, synVars, agentVars>>

\* ingest_file: the entry is put into the metadata it loaded, and that is
\* written.
RaceIngestSaveMeta ==
    /\ ingPc = "metaLoaded"
    /\ metaFiles' = RegisterFile(ingMeta, ingStore.entry[1])
    /\ ingPc' = "done"
    /\ UNCHANGED <<indexFaiss, indexPkl, indexDocs, filesDir, clock, idxOut,
                   before, allClean, deletedNames, ingStore, ingMeta, delPc,
                   delMeta, delRemaining, srchPc, srchOut, overlap, chatVars,
                   synVars, agentVars>>

\* delete_file: the metadata is loaded, the name looked up and its entry
\* taken out of the copy.
RaceDeleteLoadMeta ==
    /\ delPc = "idle"
    /\ IF ~FileExists(metaFiles, RaceDeleteName)
       THEN /\ delPc' = "failed"
            /\ UNCHANGED delMeta
       ELSE /\ delPc' = "metaLoaded"
            /\ delMeta' = WithoutFile(metaFiles, RaceDeleteName)
    /\ UNCHANGED <<idxVars, ingPc, ingStore, ingMeta, delRemaining, srchPc,
                   srchOut, overlap, chatVars, synVars, agentVars>>

\* delete_file: _save_metadata(metadata)
RaceDeleteSaveMeta ==
    /\ delPc = "metaLoaded"
    /\ metaFiles' = delMeta
    /\ delPc' = "metaSaved"
    /\ UNCHANGED <<indexFaiss, indexPkl, indexDocs, filesDir, clock, idxOut,
                   before, allClean, deletedNames, ingPc, ingStore, ingMeta,
                   delMeta, delRemaining, srchPc, srchOut, overlap, chatVars,
                   synVars, agentVars>>

\* delete_file: with no index.faiss the call is over; else the index is
\* loaded and the documents of the other files collected.
RaceDeleteLoad ==
    /\ delPc = "metaSaved"
    /\ IF ~indexFaiss
       THEN /\ delPc' = "done"
            /\ UNCHANGED delRemaining
       ELSE IF ~indexPkl
       THEN /\ delPc' = "failed"
            /\ UNCHANGED delRemaining
       ELSE /\ delPc' = "loaded"
            /\ delRemaining' = RemainingDocs(indexDocs, RaceDeleteName)
    /\ UNCHANGED <<idxVars, ingPc, ingStore, ingMeta, delMeta, srchPc,
                   srchOut, overlap, chatVars, synVars, agentVars>>

\* delete_file: os.unlink(faiss_index_path), if it is there.
RaceDeleteUnlinkFaiss ==
    /\ delPc = "loaded"
    /\ indexFaiss' = FALSE
    /\ delPc' = "unlinkedFaiss"
    /\ UNCHANGED <<metaFiles, indexPkl, indexDocs, filesDir, clock, idxOut,
                   before, allClean, deletedNames, ingPc, ingStore, ingMeta,
                   delMeta, delRemaining, srchPc, srchOut, overlap, chatVars,
                   synVars, agentVars>>

\* delete_file: os.unlink(pkl_path), if it is there.
RaceDeleteUnlinkPkl ==
    /\ delPc = "unlinkedFaiss"
    /\ indexPkl' = FALSE
    /\ indexDocs' = <<>>
    /\ delPc' = "unlinked"
    /\ UNCHANGED <<metaFiles, indexFaiss, filesDir, clock, idxOut, before,
                   allClean, deletedNames, ingPc, ingStore, ingMeta, delMeta,
                   delRemaining, srchPc, srchOut, overlap, chatVars, synVars,
                   agentVars>>

\* delete_file: a new index of the remaining documents is made and saved,
\* when there are any.
RaceDeleteRebuild ==
    /\ delPc = "unlinked"
    /\ IF delRemaining # <<>>
       THEN /\ indexFaiss' = TRUE
            /\ indexPkl' = TRUE
            /\ indexDocs' = delRemaining
       ELSE UNCHANGED <<indexFaiss, indexPkl, indexDocs>>
    /\ delPc' = "done"
    /\ UNCHANGED <<metaFiles, filesDir, clock, idxOut, before, allClean,
                   deletedNames, ingPc, ingStore, ingMeta, delMeta,
                   delRemaining, srchPc, srchOut, overlap, chatVars, synVars,
                   agentVars>>

\* search_data: get_vectorstore looks whether index.faiss is there.
RaceSearchExists ==
    /\ srchPc = "idle"
    /\ IF GetVectorstore(indexFaiss, "none") = "none"
       THEN /\ srchPc' = "done"
            /\ srchOut' = IdxResult("search", "", "no_data", NoError, 0, 0, {})
       ELSE /\ srchPc' = "found"
            /\ UNCHANGED srchOut
    /\ UNCHANGED <<idxVars, ingPc, ingStore, ingMeta, delPc, delMeta,
                   delRemaining, overlap, chatVars, synVars, agentVars>>

\* search_data: get_vectorstore loads the index and similarity_search gives
\* the hits; what is raised becomes the text of an error.
RaceSearchLoad(hits) ==
    /\ srchPc = "found"
    /\ srchPc' = "done"
    /\ LET vectorstore ==
              GetVectorstore(TRUE, IF Loadable THEN "none" ELSE "load")
       IN  /\ hits \in (IF vectorstore = "loaded" THEN TopK(indexDocs) ELSE {{}})
           /\ srchOut' =
                 IF vectorstore = "raises"
                 THEN IdxResult("search", "", "error_text",
                                Exception("Exception", "Error searching data"),
                                0, 0, {})
                 ELSE IF hits = {}
                 THEN IdxResult("search", "", "no_hits", NoError, 0, 0, {})
                 ELSE IdxResult("search", "", "hits", NoError, 0, 0, hits)
    /\ UNCHANGED <<idxVars, ingPc, ingStore, ingMeta, delPc, delMeta,
                   delRemaining, overlap, chatVars, synVars, agentVars>>

RaceNext ==
    \/ \E rows \in RowCounts : RaceIngestStart(rows)
    \/ RaceIngestLoad
    \/ RaceIngestSave
    \/ RaceIngestLoadMeta
    \/ RaceIngestSaveMeta
    \/ RaceDeleteLoadMeta
    \/ RaceDeleteSaveMeta
    \/ RaceDeleteLoad
    \/ RaceDeleteUnlinkFaiss
    \/ RaceDeleteUnlinkPkl
    \/ RaceDeleteRebuild
    \/ RaceSearchExists
    \/ \E hits \in TopK(indexDocs) \cup {{}} : RaceSearchLoad(hits)

\* ---------------------------------------------------------------------
\* The CellByteAgent object: its file list, its system prompt and the
\* runtime it is bound to.
\* ---------------------------------------------------------------------

MaxRefreshes == 2

\* A variant that lists the files last first.
ProjectMetadataReversed(files) ==
    [i \in DOMAIN files |->
        [name |-> files[Len(files) + 1 - i].name,
         row_count |-> files[Len(files) + 1 - i].row_count]]

\* The fields the agent keeps of each entry of the metadata file; the date of
\* ingestion is not among them.
ProjectMetadata(files) ==
    [i \in DOMAIN files |->
        [name |-> files[i].name, row_count |-> files[i].row_count]]

\* _build_system_prompt: the numbered list of the files, or the sentence that
\* there are none.
BuildSystemPrompt(metadata) ==
    IF metadata = <<>>
    THEN <<"No files have been ingested yet.">>
    ELSE [i \in DOMAIN metadata |->
            [n |-> i, name |-> metadata[i].name,
             row_count |-> metadata[i].row_count]]

\* self.tools, as the constructor sets it.
AgentTools == <<"search_data", "create_plot">>

\* The list llm_utils.tools exports.
ALL_TOOLS == <<"search_data", "analyze_data", "create_plot">>

CreateReactAgent(tools, prompt) == [tools |-> tools, prompt |-> prompt]

\* The agent as the constructor leaves it.
AgentConstructed ==
    /\ agentMetadata = ProjectMetadata(metaFiles)
    /\ agentPrompt = BuildSystemPrompt(ProjectMetadata(metaFiles))
    /\ agentTools = AgentTools
    /\ agentBinding =
          CreateReactAgent(AgentTools,
                           BuildSystemPrompt(ProjectMetadata(metaFiles)))
    /\ refreshes = 0

RefreshMetadata ==
    /\ refreshes < MaxRefreshes
    /\ refreshes' = refreshes + 1
    /\ agentMetadata' = ProjectMetadata(metaFiles)
    /\ agentPrompt' = BuildSystemPrompt(agentMetadata')
    /\ agentBinding' = CreateReactAgent(agentTools, agentPrompt')
    /\ UNCHANGED <<agentTools, chatVars, synVars, idxVars, raceVars>>

\* The service: one agent, and beside it the ingest and delete endpoints and
\* the chat endpoint.
AgentNext ==
    \/ RefreshMetadata
    \/ \E name \in Names, rows \in RowCounts : IngestFile(name, rows, "none")
    \/ \E name \in Names : DeleteFile(name, "none")
    \/ \E m \in Messages, emitted \in Emissions :
          Len(emitted) = 1 /\ ChatReturns(m, emitted)
    \/ \E m \in Messages, e \in RuntimeFailures : ChatInvokeFails(m, e)

\* The conversation reconciler alone: a caller comes with any history.
InitChat ==
    /\ callerHistory \in Histories
    /\ ChatIdle
    /\ SynIdle
    /\ IdxIdle
    /\ AgentConstructed
    /\ RaceIdle

SpecChat == InitChat /\ [][ChatNext]_vars

\* The synthesis paths alone.
InitSynth ==
    /\ callerHistory = <<>>
    /\ ChatIdle
    /\ SynIdle
    /\ IdxIdle
    /\ AgentConstructed
    /\ RaceIdle

SpecSynth == InitSynth /\ [][SynNext]_vars

\* The synthesis paths where every completion call and every execution
\* that was begun comes back: run_analytics and create_plot_from_request are
\* sequential code that blocks on each call. Each of these steps changes
\* synPc.
SpecSynthLive == InitSynth /\ [][SynNext]_vars /\ WF_synPc(SynProgress)

\* The index, the metadata file and the dataset store alone: calls come one
\* at a time.
InitIndex ==
    /\ callerHistory = <<>>
    /\ ChatIdle
    /\ SynIdle
    /\ IdxIdle
    /\ AgentConstructed
    /\ RaceIdle

SpecIndex == InitIndex /\ [][IdxNext]_vars

\* The agent of the service beside the ingest, delete and chat endpoints.
InitAgent ==
    /\ callerHistory = <<>>
    /\ ChatIdle
    /\ SynIdle
    /\ IdxIdle
    /\ AgentConstructed
    /\ RaceIdle

SpecAgent == InitAgent /\ [][AgentNext]_vars

\* One ingest_file of b.csv, one delete_file of a.csv and one search_data
\* side by side, begun when a.csv is registered and indexed, and b.csv
\* either is too or is not yet.
RaceStart(withB) ==
    LET docsA == CsvToDocuments(RaceDeleteName, MaxRows, 1)
        docsB == IF withB THEN CsvToDocuments(RaceIngestName, MaxRows, 2)
                 ELSE <<>>
        filesA == <<FileMetadata(RaceDeleteName, MaxRows, 1)>>
        filesB == IF withB THEN <<FileMetadata(RaceIngestName, MaxRows, 2)>>
                  ELSE <<>>
    IN  [files |-> filesA \o filesB, faiss |-> TRUE, pkl |-> TRUE,
         docs |-> docsA \o docsB,
         store |-> [n \in Names |->
                      IF n = RaceDeleteName THEN 1
                      ELSE IF withB /\ n = RaceIngestName THEN 2 ELSE 0]]

InitRace ==
    /\ callerHistory = <<>>
    /\ ChatIdle
    /\ SynIdle
    /\ \E withB \in BOOLEAN :
          /\ metaFiles = RaceStart(withB).files
          /\ indexFaiss = TRUE
          /\ indexPkl = TRUE
          /\ indexDocs = RaceStart(withB).docs
          /\ filesDir = RaceStart(withB).store
          /\ clock = Len(RaceStart(withB).files)
          /\ before = RaceStart(withB)
    /\ idxOut = IdxNoOut
    /\ allClean = TRUE
    /\ deletedNames = {}
    /\ AgentConstructed
    /\ RaceIdle

SpecRace == InitRace /\ [][RaceNext]_vars

\* The dataset store between the index and the synthesis paths: an analysis
\* or a chart is asked for on the file that was just deleted.
InitStore ==
    /\ callerHistory = <<>>
    /\ ChatIdle
    /\ SynIdle
    /\ IdxIdle
    /\ AgentConstructed
    /\ RaceIdle

SpecStore == InitStore /\ [][StoreNext]_vars

\* The three tools.
InitTools ==
    /\ callerHistory = <<>>
    /\ ChatIdle
    /\ SynIdle
    /\ IdxIdle
    /\ AgentConstructed
    /\ RaceIdle

SpecTools == InitTools /\ [][ToolsNext]_vars

\* =========================================================================
\*                     properties of CellByteAgent.chat
\* =========================================================================

\* The flat turn t is what the native message msg flattens to.
TurnOf(t, msg) ==
    /\ t.content = msg.content
    /\ msg.type = "Human" => t.role = "user"
    /\ msg.type = "AI" =>
          /\ t.role = "assistant"
          /\ IF msg.tool_calls # <<>>
             THEN "tool_calls" \in DOMAIN t /\ t.tool_calls = msg.tool_calls
             ELSE "tool_calls" \notin DOMAIN t
    /\ msg.type = "Tool" =>
          /\ t.role = "tool"
          /\ "tool_call_id" \in DOMAIN t
          /\ t.tool_call_id = msg.tool_call_id

\* The assistant turn t carries a tool call with id i.
CallsWithId(t, i) ==
    /\ t.role = "assistant"
    /\ "tool_calls" \in DOMAIN t
    /\ \E k \in 1..Len(t.tool_calls) : t.tool_calls[k].id = i

\* Every tool turn of the flat history h has exactly one assistant turn
\* before it that carries a tool call with the tool turn's tool_call_id.
Linked(h) ==
    \A i \in 1..Len(h) :
        h[i].role = "tool" =>
            /\ "tool_call_id" \in DOMAIN h[i]
            /\ Cardinality({j \in 1..(i - 1) :
                               CallsWithId(h[j], h[i].tool_call_id)}) = 1

\* The same of a sequence of native messages.
LinkedNative(ms) ==
    \A i \in 1..Len(ms) :
        ms[i].type = "Tool" =>
            Cardinality({j \in 1..(i - 1) :
                            /\ ms[j].type = "AI"
                            /\ \E k \in 1..Len(ms[j].tool_calls) :
                                   ms[j].tool_calls[k].id = ms[i].tool_call_id}) = 1

UnknownRole(t) == t.role \notin {"user", "assistant", "tool"}

\* C1: when chat returns, the first len(H) turns of updated_history are the
\* turns of the history H it was called with, in order and unchanged, and
\* the caller's list is still H.
C1_PrefixIsHistory ==
    chatPc = "returned" =>
        /\ Len(chatOut.history) >= Len(chatIn.history)
        /\ SubSeq(chatOut.history, 1, Len(chatIn.history)) = chatIn.history
        /\ callerHistory = chatIn.history

\* A call that returned on a history of two turns or more, one of them with
\* a role chat does not reconstruct.
C1_Witness ==
    /\ chatPc = "returned"
    /\ Len(chatIn.history) >= 2
    /\ \E i \in 1..Len(chatIn.history) : UnknownRole(chatIn.history[i])
    /\ Len(chatOut.history) > Len(chatIn.history)

\* C2: when chat returns, what follows the copy of H in updated_history is
\* one user turn with the new message and then, one for one and in order,
\* the turns of the messages the runtime emitted; nothing of H comes twice.
C2_SuffixIsNewTurns ==
    chatPc = "returned" =>
        LET n == Len(chatIn.history)
            out == chatOut.history
            em == rt.emitted
        IN  /\ Len(out) = n + 1 + Len(em)
            /\ out[n + 1] = UserTurn(chatIn.message)
            /\ \A i \in 1..Len(em) : TurnOf(out[n + 1 + i], em[i])

\* A call that returned on a history with a turn of unknown role (the
\* messages list is then shorter than the history) and in which the runtime
\* called a tool.
C2_Witness ==
    /\ chatPc = "returned"
    /\ \E i \in 1..Len(chatIn.history) : UnknownRole(chatIn.history[i])
    /\ Len(rt.given) < Len(chatIn.history) + 1
    /\ Len(rt.emitted) = 3

\* C3 as stated: whatever the input history, every tool turn of the
\* updated_history has exactly one assistant turn before it whose tool_calls
\* has the tool turn's tool_call_id.
C3_AlwaysLinked == chatPc = "returned" => Linked(chatOut.history)

\* C3 as amended: chat keeps the linkage and does not make it. If every tool
\* message of the sequence the runtime returned has exactly one assistant
\* message before it with its id, so has every tool turn of updated_history.
C3_LinkageKept ==
    chatPc = "returned" =>
        (LinkedNative(rt.messages) => Linked(chatOut.history))

\* A call that returned a linked sequence in which the runtime called a tool
\* and the tool answered.
C3_Witness ==
    /\ chatPc = "returned"
    /\ LinkedNative(rt.messages)
    /\ \E i \in 1..Len(rt.emitted) : rt.emitted[i].type = "Tool"
    /\ \E i \in 1..Len(chatIn.history) : chatIn.history[i].role = "tool"

\* C4: the response chat returns is the content of the last message of the
\* sequence the runtime returned, and of the last turn of updated_history.
C4_ResponseIsFinalContent ==
    chatPc = "returned" =>
        /\ chatOut.response = Last(rt.messages).content
        /\ chatOut.response = Last(chatOut.history).content

\* A call in which the runtime emitted a tool call, its result and an
\* answer, of three different contents.
C4_Witness ==
    /\ chatPc = "returned"
    /\ Len(rt.emitted) = 3
    /\ rt.emitted[1].content # rt.emitted[3].content
    /\ rt.emitted[2].content # rt.emitted[3].content
    /\ chatOut.response = rt.emitted[3].content

\* C5: when agent.invoke fails, chat raises that failure, returns no
\* history, and the caller's list is what it was when chat was called.
C5_FailurePropagates ==
    (chatPc = "raised" /\ rt.invoked /\ ~rt.ok) =>
        /\ chatOut.status = "raised"
        /\ chatOut.exc = rt.exc
        /\ chatOut.history = None
        /\ chatOut.response = None
        /\ callerHistory = chatIn.history

\* A call on a history of two turns or more in which agent.invoke failed.
C5_Witness ==
    /\ chatPc = "raised"
    /\ rt.invoked /\ ~rt.ok
    /\ rt.exc \in RuntimeFailures
    /\ Len(chatIn.history) >= 2

\* =========================================================================
\*                   properties of the synthesis paths
\* =========================================================================

AllFailed(log) == \A i \in 1..Len(log) : ~log[i].ok

\* C6: an invocation of run_analytics or create_plot_from_request calls the
\* completion service MAX_RETRIES times at most.
C6_CompletionCallsBounded == Len(llmLog) <= MAX_RETRIES

\* An analysis whose third completion call follows two failed snippets.
C6_Witness ==
    /\ synKind = "analytics"
    /\ Len(llmLog) = MAX_RETRIES
    /\ Len(execLog) = MAX_RETRIES
    /\ AllFailed(execLog)

\* C7: in run_analytics, after two snippets that raised a third is drafted,
\* and when the third succeeds the invocation returns its result and its
\* code after exactly 3 completion calls and 3 executions.
C7_ThirdAttemptReturns ==
    synKind = "analytics" =>
        /\ (Len(execLog) = 2 /\ AllFailed(execLog) /\ Len(llmLog) = 2) =>
               synPc = "draft"
        /\ (Len(execLog) = 3 /\ execLog[3].ok) =>
               /\ synPc = "returned"
               /\ synOut.status = "returned"
               /\ Len(llmLog) = 3
               /\ synOut.code = execLog[3].code
               /\ synOut.result =
                      WithItem(ExecuteAnalyticsCode(Binds(execLog[3].bound)).result,
                               "code", CleanCode(llmLog[3].content))

\* Two snippets raised and the third, drafted from another response, bound
\* a result.
C7_Witness ==
    /\ synKind = "analytics"
    /\ synPc = "returned"
    /\ Len(execLog) = 3
    /\ ~execLog[1].ok /\ ~execLog[2].ok /\ execLog[3].ok
    /\ execLog[3].code # execLog[1].code

\* C8 as stated: a chart snippet that fails before MAX_RETRIES attempts were
\* made is followed by the draft of a new snippet.
C8_ChartRetries ==
    (/\ synKind = "plot"
     /\ execLog # <<>>
     /\ ~Last(execLog).ok
     /\ Len(execLog) < MAX_RETRIES) => synPc = "draft"

\* C9: when all MAX_RETRIES executions of run_analytics failed, it raises
\* the exception of the last one.
C9_LastExceptionRaised ==
    (/\ synKind = "analytics"
     /\ Len(execLog) = MAX_RETRIES
     /\ AllFailed(execLog)) =>
        /\ synPc = "raised"
        /\ synOut.status = "raised"
        /\ synOut.exc = execLog[MAX_RETRIES].exc

\* Three failed executions, the last with another exception than the two
\* before it.
C9_Witness ==
    /\ synKind = "analytics"
    /\ Len(execLog) = MAX_RETRIES
    /\ AllFailed(execLog)
    /\ execLog[MAX_RETRIES].exc # execLog[1].exc
    /\ execLog[MAX_RETRIES].exc # execLog[2].exc

C11_UnboundIsFailure ==
    /\ \A i \in 1..Len(execLog) :
          (~execLog[i].raised /\ execLog[i].bound.tag = "unbound") =>
              /\ ~execLog[i].ok
              /\ execLog[i].exc.kind = "ValueError"
    /\ (/\ execLog # <<>>
        /\ ~Last(execLog).raised
        /\ Last(execLog).bound.tag = "unbound") => synPc # "returned"

\* An analysis snippet ran without raising and bound nothing.
C11_Witness ==
    /\ synKind = "analytics"
    /\ execLog # <<>>
    /\ ~Last(execLog).raised
    /\ Last(execLog).bound.tag = "unbound"
    /\ ~Last(execLog).ok

\* C12 as stated: whatever value an analysis snippet binds to result
\* without raising, the execution step succeeds and returns a mapping with a
\* summary; a value that is not a mapping comes back as summary and data.
C12_BoundValueReturned ==
    synKind = "analytics" =>
        /\ \A i \in 1..Len(execLog) :
              (~execLog[i].raised /\ execLog[i].bound.tag # "unbound") =>
                  execLog[i].ok
        /\ synPc = "returned" =>
              /\ "summary" \in DOMAIN synOut.result
              /\ Last(execLog).bound.tag = "scalar" =>
                    /\ synOut.result.summary = Last(execLog).bound.text
                    /\ synOut.result.data = Last(execLog).bound.text

\* =========================================================================
\*          properties of ingest_file, delete_file and search_data
\* =========================================================================

\* The names registered in a metadata file list, and the sources of a
\* sequence of documents.
NamesOf(files) == {files[i].name : i \in DOMAIN files}
SourcesOf(docs) == {docs[i].source : i \in DOMAIN docs}

\* The documents of the sequence docs whose source is name, in order.
DocsOf(docs, name) == SelectSeq(docs, LAMBDA d : d.source = name)

\* The metadata file and the index on disk are as they were when the last
\* call began.
IndexAndMetadataUntouched ==
    /\ metaFiles = before.files
    /\ indexFaiss = before.faiss
    /\ indexPkl = before.pkl
    /\ indexDocs = before.docs

\* C13: delete_file of a name with no entry in metadata raises ValueError
\* and leaves the metadata file and the index on disk as they were.
C13_NotFoundLeavesState ==
    (idxOut.op = "delete" /\ idxOut.name \notin NamesOf(before.files)) =>
        /\ idxOut.status = "raised"
        /\ idxOut.exc.kind = "ValueError"
        /\ IndexAndMetadataUntouched

\* delete_file of a name that is not registered, while another file is
\* registered and indexed.
C13_Witness ==
    /\ idxOut.op = "delete"
    /\ idxOut.name \notin NamesOf(before.files)
    /\ before.files # <<>>
    /\ before.faiss
    /\ idxOut.status = "raised"

\* C14: when one file is registered and the index holds its documents and
\* no others, delete_file of it leaves the metadata file list empty and
\* neither index.faiss nor index.pkl on disk; search_data then answers that
\* no data has been ingested.
C14_LastFileLeavesNothing ==
    /\ (/\ idxOut.op = "delete"
        /\ idxOut.status = "deleted"
        /\ NamesOf(before.files) = {idxOut.name}
        /\ before.faiss
        /\ SourcesOf(before.docs) = {idxOut.name}) =>
           /\ metaFiles = <<>>
           /\ ~indexFaiss /\ ~indexPkl
           /\ indexDocs = <<>>
    /\ (/\ idxOut.op = "search"
        /\ metaFiles = <<>>
        /\ deletedNames # {}
        /\ allClean) =>
           /\ idxOut.status = "no_data"
           /\ idxOut.docs = {}

\* search_data after the only registered file was deleted.
C14_Witness ==
    /\ idxOut.op = "search"
    /\ idxOut.status = "no_data"
    /\ metaFiles = <<>>
    /\ deletedNames # {}
    /\ allClean
    /\ ~indexFaiss /\ ~indexPkl

\* C15: from a delete_file(A) that returned until A is ingested again,
\* search_data gives no document whose source is A.
C15_DeletedNotFound ==
    idxOut.op = "search" =>
        \A d \in idxOut.docs : d.source \notin deletedNames

\* A was ingested, then B; A was deleted and search_data gave documents.
C15_Witness ==
    /\ idxOut.op = "search"
    /\ idxOut.docs # {}
    /\ deletedNames = {"a.csv"}
    /\ filesDir["a.csv"] > 0
    /\ filesDir["a.csv"] < filesDir["b.csv"]

\* C16: as long as no call met an upstream failure, every document of the
\* index on disk has a source that is registered in metadata.
C16_IndexedAreRegistered ==
    allClean => SourcesOf(indexDocs) \subseteq NamesOf(metaFiles)

\* After ingests and a delete without failure the index still holds
\* documents.
C16_Witness ==
    /\ allClean
    /\ indexDocs # <<>>
    /\ deletedNames # {}
    /\ idxOut.op = "delete"
    /\ idxOut.status = "deleted"

C18_IndexIsLatestIngestions ==
    allClean =>
        /\ SourcesOf(indexDocs) \subseteq NamesOf(metaFiles)
        /\ \A i \in DOMAIN metaFiles :
              DocsOf(indexDocs, metaFiles[i].name) =
                  CsvToDocuments(metaFiles[i].name, metaFiles[i].row_count,
                                 metaFiles[i].date_ingested)

\* C19 as stated: after a delete_file of a registered file that raised, the
\* metadata file and the index are both as before the call, or both as
\* after the completed deletion.
C19_FailedDeleteIsAtomic ==
    (/\ idxOut.op = "delete"
     /\ idxOut.status = "raised"
     /\ idxOut.name \in NamesOf(before.files)) =>
        \/ IndexAndMetadataUntouched
        \/ /\ idxOut.name \notin NamesOf(metaFiles)
           /\ idxOut.name \notin SourcesOf(indexDocs)
           /\ NamesOf(metaFiles) # {} => indexFaiss

\* C20: a delete_file that returns gives as remaining_files the number of
\* entries of the metadata file as persisted, none of which has the name
\* that was deleted.
C20_RemainingFilesIsPersistedCount ==
    (idxOut.op = "delete" /\ idxOut.status = "deleted") =>
        /\ idxOut.remaining_files = Len(metaFiles)
        /\ idxOut.name \notin NamesOf(metaFiles)

\* A delete_file that returned and left another file registered.
C20_Witness ==
    /\ idxOut.op = "delete"
    /\ idxOut.status = "deleted"
    /\ idxOut.remaining_files = 1
    /\ Len(before.files) = 2

\* C21: search_data called while there is no index.faiss on disk gives the
\* text that no data has been ingested, as a value: no exception, no error
\* text, no document, whatever the state of the embedding service.
C21_NoIndexIsEmptyResult ==
    (idxOut.op = "search" /\ ~before.faiss) =>
        /\ idxOut.status = "no_data"
        /\ idxOut.exc = NoError
        /\ idxOut.docs = {}

\* search_data before any ingest_file call.
C21_Witness ==
    /\ idxOut.op = "search"
    /\ clock = 0
    /\ ~before.faiss
    /\ idxOut.status = "no_data"

\* =========================================================================
\*        further properties of the synthesis paths and of the tools
\* =========================================================================

\* C23: when load_dataset gives nothing, run_analytics and
\* create_plot_from_request raise FileNotFoundError at once: no completion
\* call is made, no snippet is executed and nothing is retried.
C23_MissingDatasetNotRetried ==
    dataset = "missing" =>
        /\ synPc = "raised"
        /\ synOut.status = "raised"
        /\ synOut.exc.kind = "FileNotFoundError"
        /\ llmLog = <<>>
        /\ execLog = <<>>
        /\ attempt = 0

\* A chart was asked of a file that is not in the dataset store.
C23_Witness ==
    /\ dataset = "missing"
    /\ synKind = "plot"
    /\ synPc = "raised"

\* C29: when run_analytics returns, the code it returns, alone and inside
\* the result, is the cleaned content of the completion of the attempt whose
\* snippet ran, which is the last one drafted and executed.
C29_ReturnedCodeIsLastSnippet ==
    (synKind = "analytics" /\ synPc = "returned") =>
        /\ Len(llmLog) = Len(execLog)
        /\ Last(execLog).ok
        /\ \A i \in 1..(Len(execLog) - 1) : ~execLog[i].ok
        /\ synOut.code = CleanCode(Last(llmLog).content)
        /\ synOut.code = Last(execLog).code
        /\ synOut.result.code = synOut.code

\* run_analytics returned on the second attempt, with another snippet than
\* the one that failed.
C29_Witness ==
    /\ synKind = "analytics"
    /\ synPc = "returned"
    /\ Len(execLog) = 2
    /\ execLog[1].code # execLog[2].code
    /\ CleanCode(llmLog[1].content) # CleanCode(llmLog[2].content)

\* C28: an ingest_file that returns has appended. With no index before, the
\* index holds the documents of the table and no other; with an index
\* before, the documents it held are still there, in place, followed by the
\* documents of the table. The index grew by rows_indexed, the number of
\* rows of the table, which is the row_count written to metadata.
C28_IngestAppends ==
    (idxOut.op = "ingest" /\ idxOut.status = "success") =>
        LET old == IF before.faiss THEN before.docs ELSE <<>>
            n == Len(old)
        IN  /\ indexFaiss /\ indexPkl
            /\ Len(indexDocs) = n + idxOut.rows_indexed
            /\ SubSeq(indexDocs, 1, n) = old
            /\ \A i \in (n + 1)..Len(indexDocs) :
                  /\ indexDocs[i].source = idxOut.name
                  /\ indexDocs[i].stamp = clock
                  /\ indexDocs[i].row_index = i - n - 1
            /\ \E i \in DOMAIN metaFiles :
                  /\ metaFiles[i].name = idxOut.name
                  /\ metaFiles[i].row_count = idxOut.rows_indexed

\* An ingest_file returned on an index that held documents of two earlier
\* ingestions.
C28_Witness ==
    /\ idxOut.op = "ingest"
    /\ idxOut.status = "success"
    /\ before.faiss
    /\ Len(before.docs) >= 2
    /\ idxOut.rows_indexed >= 1

\* What the tool of the synthesis that just ended gives the runtime.
ToolOut ==
    IF synKind = "analytics" THEN AnalyzeData(synOut) ELSE CreatePlot(synOut)

\* C22: none of the three tools raises to the runtime. search_data gives a
\* text in every case; analyze_data and create_plot give a text whether the
\* synthesis returned or raised, and when it raised (dataset not found,
\* completion failure, last failed execution) the text has the message of
\* the exception.
C22_ToolsNeverRaise ==
    /\ idxOut.op = "search" =>
          idxOut.status \in {"no_data", "no_hits", "hits", "error_text"}
    /\ synPc \in {"returned", "raised"} =>
          /\ ~ToolOut.raises
          /\ ToolOut.text # <<>>
          /\ synPc = "raised" => Last(ToolOut.text) = synOut.exc.msg

\* analyze_data after the last of MAX_RETRIES executions failed.
C22_Witness ==
    /\ synKind = "analytics"
    /\ synPc = "raised"
    /\ Len(execLog) = MAX_RETRIES
    /\ ~ToolOut.raises
    /\ ToolOut.text[1] = "Error analyzing data: "

\* C30: when all MAX_RETRIES executions of an analysis failed, the text of
\* analyze_data is "Error analyzing data: " and the message of the last
\* exception, nothing more: no earlier error, no snippet, no turn of the
\* transcript of run_analytics; the conversation of the caller is not
\* touched by the retries.
C30_OnlyLastErrorShown ==
    (/\ synKind = "analytics"
     /\ synPc = "raised"
     /\ Len(execLog) = MAX_RETRIES) =>
        /\ AnalyzeData(synOut) =
              ToolValue(<<"Error analyzing data: ", execLog[MAX_RETRIES].exc.msg>>)
        /\ DOMAIN synOut = {"status", "exc", "result", "code"}
        /\ synOut.result = None
        /\ synOut.code = NoCode
        /\ chatPc = "idle" /\ callerHistory = <<>>

\* Three executions failed with three different exceptions on three
\* different snippets.
C30_Witness ==
    /\ synKind = "analytics"
    /\ synPc = "raised"
    /\ Len(execLog) = MAX_RETRIES
    /\ execLog[1].exc.msg # execLog[3].exc.msg
    /\ execLog[2].exc.msg # execLog[3].exc.msg
    /\ execLog[1].exc.msg # execLog[2].exc.msg
    /\ transcript # <<>>


\* The names of a list of files, in order.
NameList(files) == [i \in DOMAIN files |-> files[i].name]

\* The documents the ingest_file call made of its upload.
NewDocs == {ingStore.documents[i] : i \in DOMAIN ingStore.documents}

\* The documents of an index on disk that can be loaded.
OnDisk == IF Loadable THEN {indexDocs[i] : i \in DOMAIN indexDocs} ELSE {}

\* C24: an ingest_file of b.csv and a delete_file of a.csv that both
\* returned can leave b.csv registered while the documents of the upload are
\* not in an index on disk; this happens when, and only when, the ingest
\* saved the index while the delete held the documents it had read from the
\* index and had not yet written its own index.
C24_LostUpdateNeedsOverlap ==
    (/\ ingPc = "done"
     /\ delPc = "done"
     /\ RaceIngestName \in NamesOf(metaFiles)
     /\ ~(NewDocs \subseteq OnDisk)) => overlap

\* Both calls returned, b.csv is registered, and the index is not there or
\* holds none of the documents of the upload.
C24_Witness ==
    /\ ingPc = "done"
    /\ delPc = "done"
    /\ RaceIngestName \in NamesOf(metaFiles)
    /\ NewDocs # {}
    /\ NewDocs \cap OnDisk = {}
    /\ overlap

\* C25: while b.csv is registered and indexed and no ingest_file runs, the
\* files of the index are both there or both absent at every step of a
\* delete_file of a.csv, and a search_data beside it gives documents, among
\* them only documents of the index, never the text that no data has been
\* ingested and never the text of an error.
C25_SearchBesideDeleteFindsIndex ==
    (/\ ingPc = "idle"
     /\ RaceIngestName \in NamesOf(metaFiles)) =>
        /\ indexFaiss = indexPkl
        /\ srchPc = "done" => srchOut.status \in {"hits", "no_hits"}

\* C26: a step that is not refresh_metadata leaves self.metadata,
\* self.system_prompt and self.agent as they are, whatever chat, ingest_file
\* and delete_file do; after refresh_metadata the names of self.metadata
\* are the names of the metadata file, one by one in its order, and the
\* prompt and the runtime are made of that list.
C26_ChangesOnlyOnRefresh ==
    [][/\ refreshes' = refreshes =>
            UNCHANGED <<agentMetadata, agentPrompt, agentTools, agentBinding>>
       /\ refreshes' # refreshes =>
            /\ NameList(agentMetadata') = NameList(metaFiles')
            /\ agentPrompt' = BuildSystemPrompt(agentMetadata')
            /\ agentBinding'.prompt = agentPrompt']_vars

\* After a refresh with two files, a file was deleted and a chat call
\* returned: the agent still lists both.
C26_Witness ==
    /\ refreshes > 0
    /\ Len(agentMetadata) = 2
    /\ Len(metaFiles) = 1
    /\ Len(agentBinding.prompt) = 2
    /\ chatPc = "returned"

\* C27: the tools the runtime is given are search_data, analyze_data and
\* create_plot, after construction and after every refresh.
C27_AllToolsBound ==
    {agentBinding.tools[i] : i \in DOMAIN agentBinding.tools} =
        {ALL_TOOLS[i] : i \in DOMAIN ALL_TOOLS}


\* C31: at each completion call of run_analytics, the k-th say, the
\* transcript is the seed turn and k-1 pairs after it, each the response of
\* an attempt as an assistant turn and the error of its execution as a human
\* turn, 2k-1 turns; after the last failed attempt no turn is appended, the
\* transcript ends with the last response.
C31_TranscriptAlternates ==
    synKind = "analytics" =>
        /\ synPc = "draft" =>
              /\ Len(llmLog) = attempt /\ Len(execLog) = attempt
              /\ attempt + 1 <= MAX_RETRIES
              /\ Len(transcript) = 2 * (attempt + 1) - 1
              /\ transcript[1] = SeedTranscript[1]
              /\ \A j \in 1..attempt :
                    /\ transcript[2 * j] = AITurn(llmLog[j].content)
                    /\ transcript[2 * j + 1] = ErrorFeedback(execLog[j].exc)
        /\ (synPc = "raised" /\ Len(execLog) = MAX_RETRIES) =>
              /\ Len(transcript) = 2 * MAX_RETRIES
              /\ Last(transcript) = AITurn(llmLog[MAX_RETRIES].content)

\* The third completion call, after two responses that had a code fence
\* around the snippet.
C31_Witness ==
    /\ synKind = "analytics"
    /\ synPc = "draft"
    /\ attempt = MAX_RETRIES - 1
    /\ Len(transcript) = 2 * MAX_RETRIES - 1
    /\ transcript[2].content # CleanCode(transcript[2].content)
    /\ transcript[3].role = "human"

\* C32: an invocation that was begun comes to its end, returned or raised,
\* when every completion call and every execution comes back; no more than
\* MAX_RETRIES attempts are made, and an attempt begins only when all
\* executions before it have failed, one execution for each completion
\* call that returned.
C32_InvocationTerminates ==
    /\ [](/\ Len(execLog) <= MAX_RETRIES
          /\ Len(llmLog) <= MAX_RETRIES
          /\ synPc = "draft" =>
                /\ AllFailed(execLog)
                /\ Len(execLog) = Len(llmLog)
          /\ synPc = "exec" =>
                /\ AllFailed(execLog)
                /\ Len(llmLog) = Len(execLog) + 1)
    /\ (synPc \in {"draft", "exec"}) ~> (synPc \in {"returned", "raised"})

\* An analysis that returned at its second attempt.
C32_Witness ==
    /\ synKind = "analytics"
    /\ synPc = "returned"
    /\ Len(execLog) = 2
    /\ ~execLog[1].ok
    /\ execLog[2].ok

\* C38: run_analytics never raises the RuntimeError of the statement after
\* the loop: for every attempt of range(MAX_RETRIES) a failed execution is
\* followed by the next attempt or by the raise inside the loop.
C38_AfterLoopUnreachable ==
    /\ \A k \in 0..(MAX_RETRIES - 1) : ExecFailureNext(k) \in {"retry", "raise"}
    /\ synOut.exc # Exception("RuntimeError", "Analytics failed")
    /\ (synKind = "analytics" /\ synPc = "raised" /\ execLog # <<>>
           /\ Last(llmLog).ok) =>
          /\ attempt = MAX_RETRIES - 1
          /\ synOut.exc = Last(execLog).exc

\* The loop was left in its last round by the raise of the except block.
C38_Witness ==
    /\ synKind = "analytics"
    /\ synPc = "raised"
    /\ attempt = MAX_RETRIES - 1
    /\ Len(execLog) = MAX_RETRIES
    /\ synOut.exc = Last(execLog).exc
    /\ synOut.exc.kind = "SyntaxError"


\* C33: a delete_file that returned leaves, for every other file, the
\* documents of that file in the index as they were before the call, the
\* same documents in the same order, none missing and none twice.
C33_OtherDocumentsKept ==
    (idxOut.op = "delete" /\ idxOut.status = "deleted") =>
        \A other \in Names \ {idxOut.name} :
            DocsOf(indexDocs, other) = DocsOf(before.docs, other)

\* A file was deleted from an index that held its documents and two
\* documents of the other file.
C33_Witness ==
    /\ idxOut.op = "delete"
    /\ idxOut.status = "deleted"
    /\ DocsOf(before.docs, idxOut.name) # <<>>
    /\ Len(indexDocs) = 2
    /\ Len(before.docs) > 2

\* C34: no two entries of the metadata file have the same name; an
\* ingest_file of a registered name puts its entry where the old one was and
\* leaves the other entries, and a delete_file that got past the lookup
\* leaves no entry of the name.
C34_NamesAreUnique ==
    /\ \A i, j \in DOMAIN metaFiles :
          metaFiles[i].name = metaFiles[j].name => i = j
    /\ (/\ idxOut.op = "ingest"
        /\ idxOut.status = "success"
        /\ idxOut.name \in NamesOf(before.files)) =>
          /\ NameList(metaFiles) = NameList(before.files)
          /\ \A i \in DOMAIN metaFiles :
                IF metaFiles[i].name = idxOut.name
                THEN metaFiles[i].date_ingested = clock
                ELSE metaFiles[i] = before.files[i]
    /\ (/\ idxOut.op = "delete"
        /\ idxOut.name \in NamesOf(before.files)) =>
          idxOut.name \notin NamesOf(metaFiles)

\* The first of two registered files was ingested again.
C34_Witness ==
    /\ idxOut.op = "ingest"
    /\ idxOut.status = "success"
    /\ Len(before.files) = 2
    /\ before.files[1].name = idxOut.name
    /\ metaFiles[1].date_ingested = clock
    /\ metaFiles[1] # before.files[1]

\* C35: delete_file does not touch the dataset store; the copy of the file
\* it deleted is still there, load_dataset gives its table, and
\* run_analytics or create_plot_from_request on that name goes on to the
\* completion call instead of raising not-found.
C35_DeleteLeavesStore ==
    (idxOut.op = "delete") =>
        /\ filesDir = before.store
        /\ idxOut.status = "deleted" =>
              /\ filesDir[idxOut.name] # 0
              /\ synPc # "idle" =>
                    /\ dataset = "loaded"
                    /\ synPc = "draft"
                    /\ synOut.exc.kind # "FileNotFoundError"

\* An analysis was begun on a file that is no longer registered.
C35_Witness ==
    /\ idxOut.op = "delete"
    /\ idxOut.status = "deleted"
    /\ idxOut.name \notin NamesOf(metaFiles)
    /\ synKind = "analytics"
    /\ synPc = "draft"
    /\ dataset = "loaded"


\* C36 as stated: an ingest_file that raised while embedding or while saving
\* the index leaves the metadata file and the index on disk as they were
\* before the call, and the copy of the upload in the dataset store.
C36_FailedIngestLeavesIndex ==
    (/\ idxOut.op = "ingest"
     /\ idxOut.status = "raised"
     /\ idxOut.exc.kind \in {"APIConnectionError", "OSError"}) =>
        /\ metaFiles = before.files
        /\ indexFaiss = before.faiss
        /\ indexPkl = before.pkl
        /\ indexDocs = before.docs
        /\ filesDir[idxOut.name] = clock


\* The turn is one chat rebuilds a message from: its role is user, assistant
\* or tool, and a tool turn carries its tool_call_id.
KnownTurn(t) ==
    /\ t.role \in {"user", "assistant", "tool"}
    /\ t.role = "tool" => "tool_call_id" \in DOMAIN t

\* C37 as stated: every history chat returns has only turns of role user,
\* assistant or tool, its tool turns carry a tool_call_id, and the messages
\* the next chat call rebuilds from it are the messages the runtime
\* returned.
C37_ReturnedHistoryIsNative ==
    chatPc = "returned" =>
        /\ \A i \in DOMAIN chatOut.history : KnownTurn(chatOut.history[i])
        /\ Reconstruct(chatOut.history) = rt.messages

\* C37: the messages the next chat call rebuilds from the returned history
\* are the messages the runtime returned, one by one with type, content,
\* tool calls and tool_call_id; the turns chat appended have role user,
\* assistant or tool and their tool turns carry a tool_call_id; the turns
\* of the caller's history are in it as they came, so that it has a turn of
\* another role exactly when the caller's history had one.
C37_RebuiltIsRuntimeSequence ==
    chatPc = "returned" =>
        /\ Reconstruct(chatOut.history) = rt.messages
        /\ Len(rt.messages) =
              Len(Reconstruct(chatIn.history)) + 1 + Len(rt.emitted)
        /\ \A i \in DOMAIN chatOut.history :
              IF i <= Len(chatIn.history)
              THEN chatOut.history[i] = chatIn.history[i]
              ELSE KnownTurn(chatOut.history[i])
        /\ Len(chatOut.history) = Len(chatIn.history) + 1 + Len(rt.emitted)

\* The caller's history had a turn of role system, and the runtime called a
\* tool before it answered.
C37_Witness ==
    /\ chatPc = "returned"
    /\ \E i \in DOMAIN chatIn.history : chatIn.history[i].role = "system"
    /\ \E i \in DOMAIN chatIn.history : chatIn.history[i].role = "assistant"
    /\ \E i \in DOMAIN rt.emitted : rt.emitted[i].tool_calls # <<>>
    /\ Len(rt.messages) < Len(chatOut.history)

=============================================================================
